---- MODULE Spec2Model ----
(***************************************************************************)
(* SplitGenie: the Convex back end (convex/users.js, convex/contacts.js,   *)
(* the dashboard queries) and the useStoreUser React hook.                 *)
(*                                                                         *)
(* Tables are sequences in creation order. A user's _id is its row number  *)
(* in the users table; a removed user leaves a tombstone so that its id is *)
(* never issued again and db.get(id) answers null.                         *)
(***************************************************************************)
EXTENDS Integers, Sequences, FiniteSets, TLC

VARIABLES users, groups, expenses, settlements, ret,
          clerkUser, convexAuth, userId, inflight

dbvars == <<users, groups, expenses, settlements>>
hookvars == <<clerkUser, convexAuth, userId, inflight>>
vars == <<users, groups, expenses, settlements, ret,
          clerkUser, convexAuth, userId, inflight>>

(* ------------------------------ bounds --------------------------------- *)
\* rows of the expenses and settlements tables together
MaxRecords == 2
\* the largest amount of a split or a settlement
MaxAmount == 2
\* users removed from the users table
MaxRemoved == 1
\* clock ticks in a month
TicksPerMonth == 2
\* rows of the groups table
MaxGroups == 2
\* calls of the store mutation that have not completed yet
MaxInflight == 2

(* --------------------------- values, helpers --------------------------- *)
\* groupId: undefined (a 1-to-1 record)
NoGroup == 0
\* db.get / useState(null): no document, no id
Null == 0
\* ctx.auth.getUserIdentity() answered null
NoIdentity == "none"

Tokens == <<"tokA", "tokB", "tokC">>
Names == <<"Ann", "Bob", "Cy">>

Amounts == 1..MaxAmount

Abs(n) == IF n < 0 THEN -n ELSE n

\* ctx.db.get(id) on the users table: the row, or null
UserExists(id) == id \in 1..Len(users) /\ ~users[id].deleted

\* splits.some(s => s.userId === uid)
HasSplit(e, uid) == \E i \in 1..Len(e.splits) : e.splits[i].userId = uid

\* splits.find(s => s.userId === uid): the first such entry (HasSplit holds)
FindSplit(e, uid) ==
    LET i == CHOOSE k \in 1..Len(e.splits) :
                 /\ e.splits[k].userId = uid
                 /\ \A j \in 1..(k - 1) : e.splits[j].userId # uid
    IN  e.splits[i]

(* ----------------------- users.js: getCurrentUser ---------------------- *)
\* .withIndex("by_token", q => q.eq("tokenIdentifier", t)).first(): the id of
\* the first live row with that token, or Null
UserByToken(t) ==
    LET live == {i \in 1..Len(users) :
                    ~users[i].deleted /\ users[i].tokenIdentifier = t}
    IN  IF live = {} THEN Null
        ELSE CHOOSE i \in live : \A j \in live : i <= j

\* The outcome of getCurrentUser for the caller's identity: an error, or the
\* user's _id. No table is read before the identity check.
GetCurrentUser(identity) ==
    IF identity = NoIdentity
    THEN [ok |-> FALSE, error |-> "Not authenticated", reads |-> {}, id |-> Null]
    ELSE IF UserByToken(identity) = Null
         THEN [ok |-> FALSE, error |-> "User not found",
               reads |-> {"users"}, id |-> Null]
         ELSE [ok |-> TRUE, error |-> "", reads |-> {"users"},
               id |-> UserByToken(identity)]

Failure(op, identity, cur) ==
    [op |-> op, identity |-> identity, args |-> Null, ok |-> FALSE,
     error |-> cur.error, reads |-> cur.reads, value |-> Null]

Success(op, identity, reads, value) ==
    [op |-> op, identity |-> identity, args |-> Null, ok |-> TRUE,
     error |-> "", reads |-> reads, value |-> value]

(* ------------------ dashboard queries: getUserBalances ----------------- *)
\* (balanceByUser[uid] ??= {owed: 0, owing: 0}).owed += dOwed, .owing += dOwing
\* balanceByUser keeps its keys in insertion order
RECURSIVE Tally(_, _, _, _)
Tally(bal, uid, dOwed, dOwing) ==
    IF bal = <<>> THEN <<[uid |-> uid, owed |-> dOwed, owing |-> dOwing]>>
    ELSE IF Head(bal).uid = uid
         THEN <<[uid |-> uid, owed |-> Head(bal).owed + dOwed,
                 owing |-> Head(bal).owing + dOwing]>> \o Tail(bal)
         ELSE <<Head(bal)>> \o Tally(Tail(bal), uid, dOwed, dOwing)

\* InvolvedExpense without the test of the groupId
InvolvedExpenseAnyGroup(e, me) ==
    e.paidByUserId = me \/ HasSplit(e, me)

\* the 1-to-1 expenses the user is involved in
InvolvedExpense(e, me) ==
    e.groupId = NoGroup /\ (e.paidByUserId = me \/ HasSplit(e, me))

\* for (const s of e.splits): the payer's branch
RECURSIVE PayerSplits(_, _, _)
PayerSplits(acc, splits, me) ==
    IF splits = <<>> THEN acc
    ELSE LET s == Head(splits)
         IN  IF s.userId = me \/ s.paid
             THEN PayerSplits(acc, Tail(splits), me)
             ELSE PayerSplits(
                    [youOwe |-> acc.youOwe,
                     youAreOwed |-> acc.youAreOwed + s.amount,
                     bal |-> Tally(acc.bal, s.userId, s.amount, 0)],
                    Tail(splits), me)

\* ExpenseStep with the paid flag of the user's own split forgotten
ExpenseStepCountsPaid(acc, e, me) ==
    IF e.paidByUserId = me
    THEN PayerSplits(acc, e.splits, me)
    ELSE IF HasSplit(e, me)
         THEN [youOwe |-> acc.youOwe + FindSplit(e, me).amount,
               youAreOwed |-> acc.youAreOwed,
               bal |-> Tally(acc.bal, e.paidByUserId, 0, FindSplit(e, me).amount)]
         ELSE acc

\* ExpenseStep adding the user's own split to youOwe only, not to balanceByUser
ExpenseStepUntallied(acc, e, me) ==
    IF e.paidByUserId = me
    THEN PayerSplits(acc, e.splits, me)
    ELSE IF HasSplit(e, me) /\ ~FindSplit(e, me).paid
         THEN [youOwe |-> acc.youOwe + FindSplit(e, me).amount,
               youAreOwed |-> acc.youAreOwed,
               bal |-> acc.bal]
         ELSE acc

\* one pass of for (const e of expenses)
ExpenseStep(acc, e, me) ==
    IF e.paidByUserId = me
    THEN PayerSplits(acc, e.splits, me)
    ELSE IF HasSplit(e, me) /\ ~FindSplit(e, me).paid
         THEN [youOwe |-> acc.youOwe + FindSplit(e, me).amount,
               youAreOwed |-> acc.youAreOwed,
               bal |-> Tally(acc.bal, e.paidByUserId, 0, FindSplit(e, me).amount)]
         ELSE acc

RECURSIVE ExpenseLoop(_, _, _)
ExpenseLoop(acc, es, me) ==
    IF es = <<>> THEN acc
    ELSE ExpenseLoop(ExpenseStep(acc, Head(es), me), Tail(es), me)

\* the 1-to-1 settlements the user is a party of
InvolvedSettlement(s, me) ==
    s.groupId = NoGroup /\ (s.paidByUserId = me \/ s.receivedByUserId = me)

\* SettlementStep with the totals floored at zero
SettlementStepFloored(acc, s, me) ==
    IF s.paidByUserId = me
    THEN [youOwe |-> IF acc.youOwe < s.amount THEN 0 ELSE acc.youOwe - s.amount,
          youAreOwed |-> acc.youAreOwed,
          bal |-> Tally(acc.bal, s.receivedByUserId, 0, -s.amount)]
    ELSE [youOwe |-> acc.youOwe,
          youAreOwed |-> IF acc.youAreOwed < s.amount THEN 0
                         ELSE acc.youAreOwed - s.amount,
          bal |-> Tally(acc.bal, s.paidByUserId, -s.amount, 0)]

\* one pass of for (const s of settlements)
SettlementStep(acc, s, me) ==
    IF s.paidByUserId = me
    THEN [youOwe |-> acc.youOwe - s.amount,
          youAreOwed |-> acc.youAreOwed,
          bal |-> Tally(acc.bal, s.receivedByUserId, 0, -s.amount)]
    ELSE [youOwe |-> acc.youOwe,
          youAreOwed |-> acc.youAreOwed - s.amount,
          bal |-> Tally(acc.bal, s.paidByUserId, -s.amount, 0)]

RECURSIVE SettlementLoop(_, _, _)
SettlementLoop(acc, ss, me) ==
    IF ss = <<>> THEN acc
    ELSE SettlementLoop(SettlementStep(acc, Head(ss), me), Tail(ss), me)

\* youOwe, youAreOwed and balanceByUser after both loops, on the expenses es
\* and the settlements ss
LedgerOf(es, ss, me) ==
    LET involvedE(e) == InvolvedExpense(e, me)
        involvedS(s) == InvolvedSettlement(s, me)
        start == [youOwe |-> 0, youAreOwed |-> 0, bal |-> <<>>]
        afterExpenses == ExpenseLoop(start, SelectSeq(es, involvedE), me)
    IN  SettlementLoop(afterExpenses, SelectSeq(ss, involvedS), me)

Ledger(me) == LedgerOf(expenses, settlements, me)

\* counterpart?.name ?? "Unknown"
CounterpartName(uid) == IF UserExists(uid) THEN users[uid].name ELSE "Unknown"

\* list.sort((a, b) => b.amount - a.amount): stable, descending by amount
RECURSIVE InsertByAmount(_, _)
InsertByAmount(sorted, x) ==
    IF sorted = <<>> THEN <<x>>
    ELSE IF Head(sorted).amount >= x.amount
         THEN <<Head(sorted)>> \o InsertByAmount(Tail(sorted), x)
         ELSE <<x>> \o sorted

RECURSIVE SortByAmount(_)
SortByAmount(s) ==
    IF s = <<>> THEN <<>>
    ELSE InsertByAmount(SortByAmount(SubSeq(s, 1, Len(s) - 1)), s[Len(s)])

\* BuildList without the skip of a zero net
RECURSIVE BuildListKeepsZero(_, _)
BuildListKeepsZero(bal, wanted) ==
    IF bal = <<>> THEN <<>>
    ELSE LET b == Head(bal)
             net == b.owed - b.owing
             base == [userId |-> b.uid,
                      name |-> IF b.uid \in 1..Len(users) /\ ~users[b.uid].deleted
                               THEN users[b.uid].name ELSE "Unknown",
                      amount |-> IF net < 0 THEN -net ELSE net]
             list == IF net > 0 THEN "owedBy" ELSE "owe"
         IN  IF list = wanted
             THEN <<base>> \o BuildListKeepsZero(Tail(bal), wanted)
             ELSE BuildListKeepsZero(Tail(bal), wanted)

\* for (const [uid, {owed, owing}] of Object.entries(balanceByUser)): the
\* entries pushed to youAreOwedByList (wanted = "owedBy") or youOweList ("owe")
RECURSIVE BuildList(_, _)
BuildList(bal, wanted) ==
    IF bal = <<>> THEN <<>>
    ELSE LET b == Head(bal)
             net == b.owed - b.owing
             base == [userId |-> b.uid, name |-> CounterpartName(b.uid),
                      amount |-> Abs(net)]
             list == IF net > 0 THEN "owedBy" ELSE "owe"
         IN  IF net = 0 THEN BuildList(Tail(bal), wanted)
             ELSE IF list = wanted THEN <<base>> \o BuildList(Tail(bal), wanted)
                  ELSE BuildList(Tail(bal), wanted)

\* the value getUserBalances returns for the user with _id me, on the
\* expenses es and the settlements ss
UserBalancesOf(es, ss, me) ==
    LET l == LedgerOf(es, ss, me)
    IN  [youOwe |-> l.youOwe,
         youAreOwed |-> l.youAreOwed,
         totalBalance |-> l.youAreOwed - l.youOwe,
         oweDetails |->
            [youOwe |-> SortByAmount(BuildList(l.bal, "owe")),
             youAreOwedBy |-> SortByAmount(BuildList(l.bal, "owedBy"))]]

UserBalances(me) == UserBalancesOf(expenses, settlements, me)

getUserBalancesResult(identity) ==
    LET cur == GetCurrentUser(identity)
    IN  IF ~cur.ok THEN Failure("getUserBalances", identity, cur)
        ELSE Success("getUserBalances", identity,
                     cur.reads \cup {"expenses", "settlements"},
                     UserBalances(cur.id))

(* ----------------------- contacts.js: getAllContacts -------------------- *)
\* String.prototype.localeCompare on the strings of the model, by their place
\* in alphabetical order; a null operand is compared as the text "undefined"
NameRank(name) ==
    CASE name = "Ann" -> 1
      [] name = "Bob" -> 2
      [] name = "Cy" -> 3
      [] name = "Home" -> 4
      [] name = "Trip" -> 5
      [] name = "undefined" -> 6
      [] OTHER -> 7

LocaleCompare(a, b) ==
    IF NameRank(a) < NameRank(b) THEN -1
    ELSE IF NameRank(a) > NameRank(b) THEN 1 ELSE 0

\* expensesYouPaid followed by expensesNotPaidByYou
PersonalExpenses(me) ==
    LET youPaid(e) == e.paidByUserId = me /\ e.groupId = NoGroup
        notPaidByYou(e) ==
            e.groupId = NoGroup /\ e.paidByUserId # me /\ HasSplit(e, me)
    IN  SelectSeq(expenses, youPaid) \o SelectSeq(expenses, notPaidByYou)

\* contactIds.add(id): a Set keeps insertion order and holds an id once
SetAdd(ids, id) ==
    IF \E i \in 1..Len(ids) : ids[i] = id THEN ids ELSE Append(ids, id)

RECURSIVE AddSplitIds(_, _, _)
AddSplitIds(ids, splits, me) ==
    IF splits = <<>> THEN ids
    ELSE AddSplitIds(
           IF Head(splits).userId # me THEN SetAdd(ids, Head(splits).userId)
           ELSE ids,
           Tail(splits), me)

RECURSIVE ContactIds(_, _, _)
ContactIds(ids, es, me) ==
    IF es = <<>> THEN ids
    ELSE LET e == Head(es)
             withPayer == IF e.paidByUserId # me
                          THEN SetAdd(ids, e.paidByUserId) ELSE ids
         IN  ContactIds(AddSplitIds(withPayer, e.splits, me), Tail(es), me)

\* ContactDoc with a placeholder in place of null for a missing user
ContactDocPlaceholder(id) ==
    IF UserExists(id)
    THEN [isNull |-> FALSE, id |-> id, name |-> users[id].name,
          email |-> users[id].email]
    ELSE [isNull |-> FALSE, id |-> id, name |-> "Unknown", email |-> ""]

\* the document fetched for a contact id, or null
ContactDoc(id) ==
    IF UserExists(id)
    THEN [isNull |-> FALSE, id |-> id, name |-> users[id].name,
          email |-> users[id].email]
    ELSE [isNull |-> TRUE, id |-> id, name |-> "undefined", email |-> ""]

\* (a, b) => a?.name.localeCompare(b?.name): undefined (taken as 0) when a is
\* null; a null b is compared as "undefined"
CompareContacts(a, b) ==
    IF a.isNull THEN 0 ELSE LocaleCompare(a.name, b.name)

RECURSIVE InsertContact(_, _)
InsertContact(sorted, x) ==
    IF sorted = <<>> THEN <<x>>
    ELSE IF CompareContacts(Head(sorted), x) <= 0
         THEN <<Head(sorted)>> \o InsertContact(Tail(sorted), x)
         ELSE <<x>> \o sorted

RECURSIVE SortContacts(_)
SortContacts(s) ==
    IF s = <<>> THEN <<>>
    ELSE InsertContact(SortContacts(SubSeq(s, 1, Len(s) - 1)), s[Len(s)])

\* g.members.some(m => m.userId === me)
IsMember(g, me) == \E i \in 1..Len(g.members) : g.members[i].userId = me

RECURSIVE InsertGroup(_, _)
InsertGroup(sorted, x) ==
    IF sorted = <<>> THEN <<x>>
    ELSE IF LocaleCompare(Head(sorted).name, x.name) <= 0
         THEN <<Head(sorted)>> \o InsertGroup(Tail(sorted), x)
         ELSE <<x>> \o sorted

RECURSIVE SortGroups(_)
SortGroups(s) ==
    IF s = <<>> THEN <<>>
    ELSE InsertGroup(SortGroups(SubSeq(s, 1, Len(s) - 1)), s[Len(s)])

\* the groups the user is a member of, projected for the contact list
UserGroupCards(me) ==
    LET mine(g) == IsMember(g, me)
        gs == SelectSeq(groups, mine)
    IN  [i \in 1..Len(gs) |->
            [id |-> gs[i].id, name |-> gs[i].name,
             description |-> gs[i].description,
             memberCount |-> Len(gs[i].members)]]

\* the value getAllContacts returns for the user with _id me
AllContacts(me) ==
    LET ids == ContactIds(<<>>, PersonalExpenses(me), me)
        docs == [i \in 1..Len(ids) |-> ContactDoc(ids[i])]
        present(d) == ~d.isNull
    IN  [users |-> SelectSeq(SortContacts(docs), present),
         groups |-> SortGroups(UserGroupCards(me))]

getAllContactsResult(identity) ==
    LET cur == GetCurrentUser(identity)
    IN  IF ~cur.ok THEN Failure("getAllContacts", identity, cur)
        ELSE Success("getAllContacts", identity,
                     cur.reads \cup {"expenses", "groups"},
                     AllContacts(cur.id))

(* ------------------------------ calendar ------------------------------- *)
\* new Date(year, month, 1).getTime() and the fields of new Date(timestamp), on
\* a clock of TicksPerMonth ticks a month; months are 0..11 as in Date
MonthsPerYear == 12
Timestamp(year, month, tick) ==
    (year * MonthsPerYear + month) * TicksPerMonth + tick
GetFullYear(ts) == ts \div (MonthsPerYear * TicksPerMonth)
GetMonth(ts) == (ts \div TicksPerMonth) % MonthsPerYear

(* ------------- dashboard queries: getTotalSpent, getMonthlySpending ---- *)
\* new Date(currentYear, 0, 1).getTime() for the year of the clock reading now
StartOfYear(now) == Timestamp(GetFullYear(now), 0, 0)

\* .withIndex("by_date", q => q.gte("date", startOfYear)), then the filter
\* on the payer or a split
UserExpensesSince(es, me, startOfYear) ==
    LET mine(e) == /\ e.date >= startOfYear
                   /\ (e.paidByUserId = me \/ HasSplit(e, me))
    IN  SelectSeq(es, mine)

\* the whole of the splits of an expense
RECURSIVE SumAmounts(_)
SumAmounts(splits) ==
    IF splits = <<>> THEN 0 ELSE Head(splits).amount + SumAmounts(Tail(splits))

\* SumOwnSplits charging the payer the whole expense
RECURSIVE SumOwnSplitsOrPaid(_, _)
SumOwnSplitsOrPaid(es, me) ==
    IF es = <<>> THEN 0
    ELSE (IF Head(es).paidByUserId = me THEN SumAmounts(Head(es).splits)
          ELSE IF HasSplit(Head(es), me) THEN FindSplit(Head(es), me).amount
          ELSE 0)
         + SumOwnSplitsOrPaid(Tail(es), me)

\* userExpenses.forEach: totalSpent += userSplit.amount when there is one
RECURSIVE SumOwnSplits(_, _)
SumOwnSplits(es, me) ==
    IF es = <<>> THEN 0
    ELSE (IF HasSplit(Head(es), me) THEN FindSplit(Head(es), me).amount ELSE 0)
         + SumOwnSplits(Tail(es), me)

\* the value getTotalSpent returns, on the expenses es
TotalSpentOf(es, me, now) ==
    SumOwnSplits(UserExpensesSince(es, me, StartOfYear(now)), me)

TotalSpent(me, now) == TotalSpentOf(expenses, me, now)

\* for (let i = 0; i < 12; i++) monthlyTotals[new Date(year, i, 1).getTime()]
\* = 0, from month i on; an object keeps its keys in insertion order
RECURSIVE MonthsFrom(_, _)
MonthsFrom(year, i) ==
    IF i >= MonthsPerYear THEN <<>>
    ELSE <<[month |-> Timestamp(year, i, 0), total |-> 0]>>
         \o MonthsFrom(year, i + 1)

InitialMonths(year) == MonthsFrom(year, 0)

\* monthlyTotals[monthStart] = (monthlyTotals[monthStart] || 0) + amount
RECURSIVE AddToMonth(_, _, _)
AddToMonth(totals, monthStart, amount) ==
    IF totals = <<>> THEN <<[month |-> monthStart, total |-> amount]>>
    ELSE IF Head(totals).month = monthStart
         THEN <<[month |-> monthStart, total |-> Head(totals).total + amount]>>
              \o Tail(totals)
         ELSE <<Head(totals)>> \o AddToMonth(Tail(totals), monthStart, amount)

\* userExpenses.forEach of getMonthlySpending
RECURSIVE MonthlyLoop(_, _, _)
MonthlyLoop(totals, es, me) ==
    IF es = <<>> THEN totals
    ELSE LET e == Head(es)
             monthStart == Timestamp(GetFullYear(e.date), GetMonth(e.date), 0)
         IN  MonthlyLoop(
               IF HasSplit(e, me)
               THEN AddToMonth(totals, monthStart, FindSplit(e, me).amount)
               ELSE totals,
               Tail(es), me)

\* result.sort((a, b) => a.month - b.month): stable, ascending by month
RECURSIVE InsertByMonth(_, _)
InsertByMonth(sorted, x) ==
    IF sorted = <<>> THEN <<x>>
    ELSE IF Head(sorted).month <= x.month
         THEN <<Head(sorted)>> \o InsertByMonth(Tail(sorted), x)
         ELSE <<x>> \o sorted

RECURSIVE SortByMonth(_)
SortByMonth(s) ==
    IF s = <<>> THEN <<>>
    ELSE InsertByMonth(SortByMonth(SubSeq(s, 1, Len(s) - 1)), s[Len(s)])

\* the value getMonthlySpending returns, on the expenses es
MonthlySpendingOf(es, me, now) ==
    SortByMonth(MonthlyLoop(InitialMonths(GetFullYear(now)),
                            UserExpensesSince(es, me, StartOfYear(now)), me))

MonthlySpending(me, now) == MonthlySpendingOf(expenses, me, now)

getTotalSpentResult(identity, now) ==
    LET cur == GetCurrentUser(identity)
    IN  IF ~cur.ok
        THEN [Failure("getTotalSpent", identity, cur) EXCEPT !.args = now]
        ELSE [Success("getTotalSpent", identity, cur.reads \cup {"expenses"},
                      TotalSpent(cur.id, now)) EXCEPT !.args = now]

getMonthlySpendingResult(identity, now) ==
    LET cur == GetCurrentUser(identity)
    IN  IF ~cur.ok
        THEN [Failure("getMonthlySpending", identity, cur) EXCEPT !.args = now]
        ELSE [Success("getMonthlySpending", identity,
                      cur.reads \cup {"expenses"},
                      MonthlySpending(cur.id, now)) EXCEPT !.args = now]

(* -------------------- dashboard queries: getUserGroups ----------------- *)
\* expense.splits.forEach of the payer's branch
RECURSIVE OthersUnpaid(_, _)
OthersUnpaid(splits, me) ==
    IF splits = <<>> THEN 0
    ELSE (IF Head(splits).userId # me /\ ~Head(splits).paid
          THEN Head(splits).amount ELSE 0)
         + OthersUnpaid(Tail(splits), me)

\* expenses.forEach: what one expense adds to balance
GroupExpenseDelta(e, me) ==
    IF e.paidByUserId = me THEN OthersUnpaid(e.splits, me)
    ELSE IF HasSplit(e, me) /\ ~FindSplit(e, me).paid
         THEN -FindSplit(e, me).amount
         ELSE 0

RECURSIVE GroupExpenseLoop(_, _)
GroupExpenseLoop(es, me) ==
    IF es = <<>> THEN 0
    ELSE GroupExpenseDelta(Head(es), me) + GroupExpenseLoop(Tail(es), me)

\* settlements.forEach: what one settlement adds to balance
GroupSettlementDelta(s, me) ==
    IF s.paidByUserId = me THEN s.amount ELSE -s.amount

RECURSIVE GroupSettlementLoop(_, _)
GroupSettlementLoop(ss, me) ==
    IF ss = <<>> THEN 0
    ELSE GroupSettlementDelta(Head(ss), me) + GroupSettlementLoop(Tail(ss), me)

\* GroupBalance with the settlements of every group applied
GroupBalanceAnyGroup(gid, me) ==
    LET ofGroup(e) == e.groupId = gid
        mine(s) == s.paidByUserId = me \/ s.receivedByUserId = me
    IN  GroupExpenseLoop(SelectSeq(expenses, ofGroup), me)
        + GroupSettlementLoop(SelectSeq(settlements, mine), me)

\* the balance attached to the group with _id gid, on the expenses es and
\* the settlements ss
GroupBalanceOf(es, ss, gid, me) ==
    LET ofGroup(e) == e.groupId = gid
        mine(s) == /\ s.groupId = gid
                   /\ (s.paidByUserId = me \/ s.receivedByUserId = me)
    IN  GroupExpenseLoop(SelectSeq(es, ofGroup), me)
        + GroupSettlementLoop(SelectSeq(ss, mine), me)

\* the balance attached to the group with _id gid
GroupBalance(gid, me) == GroupBalanceOf(expenses, settlements, gid, me)

\* the value getUserGroups returns: the user's groups, each with its balance
UserGroups(me) ==
    LET mine(g) == IsMember(g, me)
        gs == SelectSeq(groups, mine)
    IN  [i \in 1..Len(gs) |->
            [id |-> gs[i].id, name |-> gs[i].name,
             description |-> gs[i].description, createdBy |-> gs[i].createdBy,
             members |-> gs[i].members, balance |-> GroupBalance(gs[i].id, me)]]

getUserGroupsResult(identity) ==
    LET cur == GetCurrentUser(identity)
    IN  IF ~cur.ok THEN Failure("getUserGroups", identity, cur)
        ELSE Success("getUserGroups", identity,
                     cur.reads \cup {"groups", "expenses", "settlements"},
                     UserGroups(cur.id))

(* ------------------------ contacts.js: createGroup --------------------- *)
\* String.prototype.trim on the texts of the model
Trim(text) ==
    CASE text = " " -> ""
      [] text = " Trip" -> "Trip"
      [] text = "Home " -> "Home"
      [] text = "Flat " -> "Flat"
      [] OTHER -> text

\* description: v.optional(v.string()) left out
NoDescription == "undefined"

\* new Set(args.members), then uniqueMembers.add(currentUser._id)
RECURSIVE UniqueMembers(_, _)
UniqueMembers(ids, members) ==
    IF members = <<>> THEN ids
    ELSE UniqueMembers(SetAdd(ids, Head(members)), Tail(members))

\* the outcome of createGroup and the groups table after it
createGroupResult(identity, name, description, members) ==
    LET cur == GetCurrentUser(identity)
        unique == SetAdd(UniqueMembers(<<>>, members), cur.id)
        doc == [id |-> Len(groups) + 1,
                name |-> Trim(name),
                description |-> IF description = NoDescription THEN ""
                                ELSE Trim(description),
                createdBy |-> cur.id,
                members |-> [i \in 1..Len(unique) |->
                               [userId |-> unique[i],
                                role |-> IF unique[i] = cur.id THEN "admin"
                                         ELSE "member"]]]
    IN  IF ~cur.ok
        THEN [ret |-> Failure("createGroup", identity, cur), groups |-> groups]
        ELSE IF Trim(name) = ""
        THEN [ret |-> Failure("createGroup", identity,
                        [error |-> "Group name cannot be empty",
                         reads |-> cur.reads]),
              groups |-> groups]
        ELSE IF \E i \in 1..Len(unique) : ~UserExists(unique[i])
        THEN [ret |-> Failure("createGroup", identity,
                        [error |-> "User not found by id", reads |-> cur.reads]),
              groups |-> groups]
        ELSE [ret |-> Success("createGroup", identity, cur.reads, doc.id),
              groups |-> Append(groups, doc)]

(* ----------------------------- users.js: store -------------------------- *)
\* identity.name left out by the identity provider
NoName == "undefined"

\* storeResult without the check of the identity: no identity is stored as
\* one more user
storeResultUnchecked(identity, name) ==
    LET existing == UserByToken(identity)
    IN  IF existing # Null
        THEN [ret |-> Success("store", identity, {"users"}, existing),
              users |-> IF users[existing].name # name
                        THEN [users EXCEPT ![existing].name = name]
                        ELSE users]
        ELSE [ret |-> Success("store", identity, {"users"}, Len(users) + 1),
              users |-> Append(users,
                          [name |-> name, tokenIdentifier |-> identity,
                           email |-> identity, deleted |-> FALSE])]

\* the outcome of store for the identity (its token) and the name it carries,
\* and the users table after it
storeResult(identity, name) ==
    LET live == {i \in 1..Len(users) :
                    ~users[i].deleted /\ users[i].tokenIdentifier = identity}
        existing == UserByToken(identity)
    IN  IF identity = NoIdentity
        THEN [ret |-> Failure("store", identity,
                        [error |-> "Called storeUser without authentication present",
                         reads |-> {}]),
              users |-> users]
        ELSE IF Cardinality(live) > 1
        THEN [ret |-> Failure("store", identity,
                        [error |-> "unique() returned more than one result",
                         reads |-> {"users"}]),
              users |-> users]
        ELSE IF existing # Null
        THEN [ret |-> Success("store", identity, {"users"}, existing),
              users |-> IF users[existing].name # name
                        THEN [users EXCEPT ![existing].name = name]
                        ELSE users]
        ELSE [ret |-> Success("store", identity, {"users"}, Len(users) + 1),
              users |-> Append(users,
                          [name |-> IF name = NoName THEN "Anonymous" ELSE name,
                           tokenIdentifier |-> identity,
                           email |-> identity, deleted |-> FALSE])]

\* ctx.db.patch(user._id, { name: undefined }) takes the name field off the
\* record; a users table whose schema requires a name refuses that, and the
\* mutation ends in an error with nothing written
StoreOutcomes(identity, name) ==
    LET r == storeResult(identity, name)
        refused == [ret |-> Failure("store", identity,
                              [error |-> "Failed to patch: name is required",
                               reads |-> {"users"}]),
                    users |-> users]
    IN  IF r.ret.ok /\ name = NoName /\ r.users # users
           /\ Len(r.users) = Len(users)
        THEN {r, refused}
        ELSE {r}

(* -------------------------- users.js: searchUsers ----------------------- *)
\* args.query.length of the search texts of the model
QueryLength(query) ==
    CASE query = "" -> 0
      [] query = "A" -> 1
      [] query = "Ann" -> 3
      [] query = "Bob" -> 3
      [] query = "tokB" -> 4
      [] OTHER -> 5

\* a search index answers the live rows whose field is the searched text
SearchRows(field, query) ==
    LET hit(i) == /\ ~users[i].deleted
                  /\ (IF field = "name" THEN users[i].name ELSE users[i].email)
                        = query
        ids == [i \in 1..Len(users) |-> i]
    IN  SelectSeq(ids, hit)

\* the value searchUsers returns
SearchUsers(me, query) ==
    LET nameResults == SearchRows("name", query)
        emailResults == SearchRows("email", query)
        fresh(id) == ~\E k \in 1..Len(nameResults) : nameResults[k] = id
        notMe(id) == id # me
        merged == SelectSeq(nameResults \o SelectSeq(emailResults, fresh), notMe)
    IN  IF QueryLength(query) < 2 THEN <<>>
        ELSE [k \in 1..Len(merged) |->
                [id |-> merged[k], name |-> users[merged[k]].name,
                 email |-> users[merged[k]].email]]

searchUsersResult(identity, query) ==
    LET cur == GetCurrentUser(identity)
    IN  IF ~cur.ok THEN Failure("searchUsers", identity, cur)
        ELSE Success("searchUsers", identity, cur.reads, SearchUsers(cur.id, query))

(* ------------------------- records and their makers -------------------- *)
\* The flows that create expenses and settlements and that remove a user are
\* not part of these files. A record they store names users that exist, gives
\* each participant one split, and moves a settlement between two parties.
Split(uid, amount, paid) == [userId |-> uid, amount |-> amount, paid |-> paid]

Expense(payer, groupId, date, splits) ==
    [paidByUserId |-> payer, groupId |-> groupId, date |-> date,
     splits |-> splits]

Settlement(payer, receiver, amount, groupId) ==
    [paidByUserId |-> payer, receivedByUserId |-> receiver,
     amount |-> amount, groupId |-> groupId]

GroupExists(gid) == gid = NoGroup \/ gid \in 1..Len(groups)

WellFormedExpense(e) ==
    /\ GroupExists(e.groupId)
    /\ UserExists(e.paidByUserId)
    /\ \A i \in 1..Len(e.splits) : UserExists(e.splits[i].userId)
    /\ \A i, j \in 1..Len(e.splits) :
          i # j => e.splits[i].userId # e.splits[j].userId

WellFormedSettlement(s) ==
    /\ GroupExists(s.groupId)
    /\ UserExists(s.paidByUserId) /\ UserExists(s.receivedByUserId)
    /\ s.paidByUserId # s.receivedByUserId

Env(op) ==
    [op |-> op, identity |-> "env", args |-> Null, ok |-> TRUE, error |-> "",
     reads |-> {}, value |-> Null]

insertExpense(e) ==
    /\ Len(expenses) + Len(settlements) < MaxRecords
    /\ WellFormedExpense(e)
    /\ expenses' = Append(expenses, e)
    /\ ret' = Env("insertExpense")
    /\ UNCHANGED <<users, groups, settlements>>
    /\ UNCHANGED hookvars

insertSettlement(s) ==
    /\ Len(expenses) + Len(settlements) < MaxRecords
    /\ WellFormedSettlement(s)
    /\ settlements' = Append(settlements, s)
    /\ ret' = Env("insertSettlement")
    /\ UNCHANGED <<users, groups, expenses>>
    /\ UNCHANGED hookvars

removeUser(id) ==
    /\ UserExists(id)
    /\ Cardinality({i \in 1..Len(users) : users[i].deleted}) < MaxRemoved
    /\ users' = [users EXCEPT ![id].deleted = TRUE]
    /\ ret' = Env("removeUser")
    /\ UNCHANGED <<groups, expenses, settlements>>
    /\ UNCHANGED hookvars

(* ------------------------------- queries ------------------------------- *)
getUserBalances(identity) ==
    /\ ret' = getUserBalancesResult(identity)
    /\ UNCHANGED dbvars
    /\ UNCHANGED hookvars

getAllContacts(identity) ==
    /\ ret' = getAllContactsResult(identity)
    /\ UNCHANGED dbvars
    /\ UNCHANGED hookvars

getTotalSpent(identity, now) ==
    /\ ret' = getTotalSpentResult(identity, now)
    /\ UNCHANGED dbvars
    /\ UNCHANGED hookvars

getMonthlySpending(identity, now) ==
    /\ ret' = getMonthlySpendingResult(identity, now)
    /\ UNCHANGED dbvars
    /\ UNCHANGED hookvars

getUserGroups(identity) ==
    /\ ret' = getUserGroupsResult(identity)
    /\ UNCHANGED dbvars
    /\ UNCHANGED hookvars

searchUsers(identity, query) ==
    /\ ret' = searchUsersResult(identity, query)
    /\ UNCHANGED dbvars
    /\ UNCHANGED hookvars

(* ------------------------------ mutations ------------------------------ *)
createGroup(identity, name, description, members) ==
    /\ Len(groups) < MaxGroups
    /\ ret' = createGroupResult(identity, name, description, members).ret
    /\ groups' = createGroupResult(identity, name, description, members).groups
    /\ UNCHANGED <<users, expenses, settlements>>
    /\ UNCHANGED hookvars

store(identity, name) ==
    /\ \E r \in StoreOutcomes(identity, name) :
          /\ ret' = [r.ret EXCEPT !.args = name]
          /\ users' = r.users
    /\ UNCHANGED <<groups, expenses, settlements>>
    /\ UNCHANGED hookvars

(* ------------------------ the 1-to-1 ledger ---------------------------- *)
UserRow(name, token) ==
    [name |-> name, tokenIdentifier |-> token, email |-> token,
     deleted |-> FALSE]

\* three users have signed in and been stored
StoredUsers == [i \in 1..3 |-> UserRow(Names[i], Tokens[i])]

HookIdle ==
    /\ clerkUser = NoIdentity
    /\ convexAuth = FALSE
    /\ userId = Null
    /\ inflight = <<>>

\* a date of the year 2
SomeDate == Timestamp(2, 0, 0)

\* The records offered to the 1-to-1 ledger. Users 1 and 2 deal with each
\* other and with user 3: the payer's own share with one other's; one other's
\* share already paid; the shares of two others; one group expense.
LedgerExpenses ==
    {Expense(px[1], NoGroup, SomeDate,
             <<Split(px[1], a, TRUE), Split(px[2], a, FALSE)>>) :
        px \in {<<1, 2>>, <<2, 1>>, <<1, 3>>, <<3, 1>>}, a \in Amounts}
    \cup
    {Expense(px[1], NoGroup, SomeDate, <<Split(px[2], 1, TRUE)>>) :
        px \in {<<1, 2>>, <<2, 1>>}}
    \cup
    {Expense(1, NoGroup, SomeDate,
             <<Split(2, a, FALSE), Split(3, a, FALSE)>>) : a \in Amounts}
    \cup
    {Expense(1, 1, SomeDate, <<Split(2, 1, FALSE)>>)}

LedgerSettlements ==
    {Settlement(pr[1], pr[2], a, NoGroup) :
        pr \in {<<1, 2>>, <<2, 1>>, <<1, 3>>, <<3, 1>>}, a \in Amounts}
    \cup
    {Settlement(1, 2, 1, 1)}

\* the groups createGroup stores when user 1 creates "Trip" with user 2, and
\* user 2 creates "Home" with user 3
StoredGroups ==
    <<[id |-> 1, name |-> "Trip", description |-> "", createdBy |-> 1,
       members |-> <<[userId |-> 2, role |-> "member"],
                     [userId |-> 1, role |-> "admin"]>>],
      [id |-> 2, name |-> "Home", description |-> "Flat", createdBy |-> 2,
       members |-> <<[userId |-> 3, role |-> "member"],
                     [userId |-> 2, role |-> "admin"]>>]>>

InitBalances ==
    /\ users = StoredUsers
    /\ groups = StoredGroups
    /\ expenses = <<>>
    /\ settlements = <<>>
    /\ ret = Env("init")
    /\ HookIdle

NextBalances ==
    \/ \E e \in LedgerExpenses : insertExpense(e)
    \/ \E s \in LedgerSettlements : insertSettlement(s)
    \/ \E i \in 1..3 : getUserBalances(Tokens[i])

SpecBalances == InitBalances /\ [][NextBalances]_vars

(* ------------------------ spending over the year ----------------------- *)
\* the clock readings of the queries: in the year 2, and on the first tick of
\* the year 3
Clock == {Timestamp(2, 5, 1), Timestamp(3, 0, 0)}

\* Expenses paid by user 1 or 2, px[1], with the other one, px[2]: both
\* shares in December of the year 1, in January of the year 3 and in January
\* of the year 2; the other's share alone, the payer having none, in March of
\* the year 2.
SpendingExpenses ==
    {Expense(px[1], NoGroup, d,
             <<Split(px[1], 1, TRUE), Split(px[2], 1, FALSE)>>) :
        px \in {<<1, 2>>, <<2, 1>>},
        d \in {Timestamp(1, 11, 1), Timestamp(3, 0, 0)}}
    \cup
    {Expense(px[1], NoGroup, Timestamp(2, 0, 0),
             <<Split(px[1], a, TRUE), Split(px[2], a, FALSE)>>) :
        px \in {<<1, 2>>, <<2, 1>>}, a \in Amounts}
    \cup
    {Expense(px[1], NoGroup, Timestamp(2, 2, 1), <<Split(px[2], a, FALSE)>>) :
        px \in {<<1, 2>>, <<2, 1>>}, a \in Amounts}

NextSpending ==
    \/ \E e \in SpendingExpenses : insertExpense(e)
    \/ \E i \in 1..2, now \in Clock : getTotalSpent(Tokens[i], now)
    \/ \E i \in 1..2, now \in Clock : getMonthlySpending(Tokens[i], now)

SpecSpending == InitBalances /\ [][NextSpending]_vars

(* ------------------------------ the groups ----------------------------- *)
\* Records of the two groups between users 1 and 2, px[1] paying: both shares;
\* in group 1 a share already paid; and a 1-to-1 expense and settlement.
GroupExpenses ==
    {Expense(px[1], g, SomeDate,
             <<Split(px[1], a, TRUE), Split(px[2], a, FALSE)>>) :
        px \in {<<1, 2>>, <<2, 1>>}, g \in {1, 2}, a \in Amounts}
    \cup
    {Expense(1, 1, SomeDate, <<Split(2, 1, TRUE)>>),
     Expense(1, NoGroup, SomeDate, <<Split(2, 1, FALSE)>>)}

GroupSettlements ==
    {Settlement(px[1], px[2], 1, g) :
        px \in {<<1, 2>>, <<2, 1>>}, g \in {1, 2}}
    \cup
    {Settlement(1, 2, 1, NoGroup)}

NextGroups ==
    \/ \E e \in GroupExpenses : insertExpense(e)
    \/ \E s \in GroupSettlements : insertSettlement(s)
    \/ \E i \in 1..3 : getUserGroups(Tokens[i])

SpecGroups == InitBalances /\ [][NextGroups]_vars

(* ------------------------- contacts and removals ----------------------- *)
\* 1-to-1 records of user 1 with users 2 and 3, a user being removed later.
ContactExpenses ==
    {Expense(px[1], NoGroup, SomeDate,
             <<Split(px[1], a, TRUE), Split(px[2], a, FALSE)>>) :
        px \in {<<1, 2>>, <<2, 1>>, <<1, 3>>, <<3, 1>>}, a \in Amounts}
    \cup
    {Expense(1, NoGroup, SomeDate,
             <<Split(2, 1, FALSE), Split(3, 1, FALSE)>>)}

ContactSettlements ==
    {Settlement(1, 3, 1, NoGroup), Settlement(3, 1, 1, NoGroup)}

NextContacts ==
    \/ \E e \in ContactExpenses : insertExpense(e)
    \/ \E s \in ContactSettlements : insertSettlement(s)
    \/ \E id \in 1..3 : removeUser(id)
    \/ \E i \in 1..2 : getUserBalances(Tokens[i])
    \/ \E i \in 1..2 : getAllContacts(Tokens[i])

SpecContacts == InitBalances /\ [][NextContacts]_vars

(* ------------------------- callers and sign-in ------------------------- *)
\* the callers: nobody signed in, or somebody whose user is not stored yet
Callers == {NoIdentity, Tokens[1]}

\* name, description and members given to createGroup
GroupInputs ==
    {<<" ", NoDescription, <<>>>>,
     <<" Trip", NoDescription, <<2>>>>,
     <<"Home ", "Flat ", <<1, 1>>>>}

AuthExpenses ==
    {Expense(1, 1, SomeDate, <<Split(1, 1, TRUE), Split(2, 1, FALSE)>>)}

AuthSettlements == {Settlement(2, 1, 1, NoGroup)}

\* one user has signed in and been stored
InitAuth ==
    /\ users = <<UserRow(Names[2], Tokens[2])>>
    /\ groups = <<>>
    /\ expenses = <<>>
    /\ settlements = <<>>
    /\ ret = Env("init")
    /\ HookIdle

NextAuth ==
    \/ \E c \in Callers, name \in {Names[1], Names[2]} : store(c, name)
    \/ \E c \in Callers, g \in GroupInputs : createGroup(c, g[1], g[2], g[3])
    \/ \E e \in AuthExpenses : insertExpense(e)
    \/ \E s \in AuthSettlements : insertSettlement(s)
    \/ \E c \in Callers : getUserBalances(c)
    \/ \E c \in Callers : getAllContacts(c)
    \/ \E c \in Callers : getUserGroups(c)
    \/ \E c \in Callers : getTotalSpent(c, Timestamp(2, 5, 1))
    \/ \E c \in Callers : getMonthlySpending(c, Timestamp(2, 5, 1))
    \/ \E c \in Callers, q \in {"A", "Bob"} : searchUsers(c, q)

SpecAuth == InitAuth /\ [][NextAuth]_vars

(* ===================== claims on getUserBalances ======================= *)
\* every record is a 1-to-1 record among the two users a and b
OnlyBetween(a, b) ==
    /\ \A i \in 1..Len(expenses) :
          /\ expenses[i].groupId = NoGroup
          /\ expenses[i].paidByUserId \in {a, b}
          /\ \A k \in 1..Len(expenses[i].splits) :
                expenses[i].splits[k].userId \in {a, b}
    /\ \A i \in 1..Len(settlements) :
          /\ settlements[i].groupId = NoGroup
          /\ settlements[i].paidByUserId \in {a, b}
          /\ settlements[i].receivedByUserId \in {a, b}

\* C1 (conservation): when every expense and settlement is a 1-to-1 record
\* whose payer, split users and parties are the two users a and b, the
\* totalBalance getUserBalances returns for a is the negation of the one it
\* returns for b.
C1_Conservation ==
    \A a, b \in 1..Len(users) :
        (a # b /\ OnlyBetween(a, b)) =>
            UserBalances(a).totalBalance = -UserBalances(b).totalBalance

\* user 1 has just read a non-zero balance from an expense and a settlement
\* that are both between users 1 and 2
C1_Witness ==
    /\ ret.op = "getUserBalances" /\ ret.ok /\ ret.identity = Tokens[1]
    /\ OnlyBetween(1, 2)
    /\ Len(expenses) >= 1 /\ Len(settlements) >= 1
    /\ ret.value.totalBalance # 0
    /\ ret.value.totalBalance = -UserBalances(2).totalBalance

\* the places of the counterparty uid in a list of oweDetails
Places(list, uid) == {i \in 1..Len(list) : list[i].userId = uid}

\* C2 (zero-sum folding, sign of net): for every counterparty tallied with
\* net = owed - owing, the counterparty is in youAreOwedBy once, with amount
\* net, exactly when net > 0; in youOwe once, with amount -net, exactly when
\* net < 0; in neither list when net = 0; and the lists hold nobody else.
C2_NetDecidesList ==
    \A me \in 1..Len(users) :
        LET bal == Ledger(me).bal
            owe == UserBalances(me).oweDetails.youOwe
            owedBy == UserBalances(me).oweDetails.youAreOwedBy
        IN  /\ \A k \in 1..Len(bal) :
                 LET net == bal[k].owed - bal[k].owing
                     inOwe == Places(owe, bal[k].uid)
                     inOwedBy == Places(owedBy, bal[k].uid)
                 IN  /\ net > 0 =>
                          /\ Cardinality(inOwedBy) = 1 /\ inOwe = {}
                          /\ \A i \in inOwedBy : owedBy[i].amount = net
                     /\ net < 0 =>
                          /\ Cardinality(inOwe) = 1 /\ inOwedBy = {}
                          /\ \A i \in inOwe : owe[i].amount = -net
                     /\ net = 0 => inOwe = {} /\ inOwedBy = {}
            /\ \A i \in 1..Len(owe) :
                 \E k \in 1..Len(bal) : bal[k].uid = owe[i].userId
            /\ \A i \in 1..Len(owedBy) :
                 \E k \in 1..Len(bal) : bal[k].uid = owedBy[i].userId

\* user 1 has just read balances in which one counterparty is owed, another
\* owes, or a tallied counterparty is settled to zero and listed nowhere
C2_Witness ==
    /\ ret.op = "getUserBalances" /\ ret.ok /\ ret.identity = Tokens[1]
    /\ \E k \in 1..Len(Ledger(1).bal) :
          /\ Ledger(1).bal[k].owed = Ledger(1).bal[k].owing
          /\ Ledger(1).bal[k].owed > 0
          /\ Places(ret.value.oweDetails.youOwe, Ledger(1).bal[k].uid) = {}
          /\ Places(ret.value.oweDetails.youAreOwedBy, Ledger(1).bal[k].uid) = {}

\* the amount listed for x in either list of oweDetails that getUserBalances
\* returns on the settlements ss, 0 when x is in none
Listed(ss, me, x) ==
    LET d == UserBalancesOf(expenses, ss, me).oweDetails
        all == d.youOwe \o d.youAreOwedBy
    IN  IF Places(all, x) = {} THEN 0
        ELSE all[CHOOSE i \in Places(all, x) : TRUE].amount

\* the settlements table before its last row was stored
EarlierSettlements == SubSeq(settlements, 1, Len(settlements) - 1)

\* C3 (settlements only reduce), as claimed: with a 1-to-1 settlement added
\* between the subject and x, x is not listed when x was in neither list
\* without it, and the amount listed for x is not larger than without it.
C3_SettlementsOnlyReduce ==
    (settlements # <<>> /\ settlements[Len(settlements)].groupId = NoGroup) =>
        LET s == settlements[Len(settlements)]
            a == s.paidByUserId
            b == s.receivedByUserId
        IN  /\ Listed(settlements, a, b) <= Listed(EarlierSettlements, a, b)
            /\ Listed(settlements, b, a) <= Listed(EarlierSettlements, b, a)

\* C4 (settlement monotonicity): with a 1-to-1 settlement of amount k paid by
\* a to b added, all other records equal, youOwe of a is lower by exactly k
\* and youAreOwed of a is the same, and youAreOwed of b is lower by exactly k
\* and youOwe of b is the same.
C4_SettlementMonotonicity ==
    (settlements # <<>> /\ settlements[Len(settlements)].groupId = NoGroup) =>
        LET s == settlements[Len(settlements)]
            a == s.paidByUserId
            b == s.receivedByUserId
            withA == UserBalancesOf(expenses, settlements, a)
            withoutA == UserBalancesOf(expenses, EarlierSettlements, a)
            withB == UserBalancesOf(expenses, settlements, b)
            withoutB == UserBalancesOf(expenses, EarlierSettlements, b)
        IN  /\ withA.youOwe = withoutA.youOwe - s.amount
            /\ withA.youAreOwed = withoutA.youAreOwed
            /\ withB.youAreOwed = withoutB.youAreOwed - s.amount
            /\ withB.youOwe = withoutB.youOwe

\* a 1-to-1 settlement has just been stored on top of an expense between the
\* same two users, and the payer's youOwe is the expense share less the amount
C4_Witness ==
    /\ ret.op = "insertSettlement"
    /\ Len(expenses) >= 1 /\ Len(settlements) >= 1
    /\ LET s == settlements[Len(settlements)]
       IN  /\ s.groupId = NoGroup
           /\ expenses[1].groupId = NoGroup
           /\ expenses[1].paidByUserId = s.receivedByUserId
           /\ HasSplit(expenses[1], s.paidByUserId)
           /\ UserBalances(s.paidByUserId).youOwe =
                 FindSplit(expenses[1], s.paidByUserId).amount - s.amount

(* ============== claims on getTotalSpent, getMonthlySpending ============ *)
\* C5 (month coverage), as claimed: whatever the dates of the stored expenses,
\* getMonthlySpending returns exactly 12 entries, the first-of-month
\* timestamps of the current year in ascending order.
C5_MonthCoverage ==
    (ret.op = "getMonthlySpending" /\ ret.ok) =>
        /\ Len(ret.value) = MonthsPerYear
        /\ \A i \in 1..Len(ret.value) :
              ret.value[i].month = Timestamp(GetFullYear(ret.args), i - 1, 0)

RECURSIVE SumTotals(_)
SumTotals(months) ==
    IF months = <<>> THEN 0 ELSE Head(months).total + SumTotals(Tail(months))

\* the expenses table before its last row was stored
EarlierExpenses == SubSeq(expenses, 1, Len(expenses) - 1)

\* what the expense e must add to the spending of me read at now
OwnShare(e, me, now) ==
    IF e.date >= StartOfYear(now) /\ HasSplit(e, me)
    THEN FindSplit(e, me).amount ELSE 0

\* C7 (personal-share exclusivity): an expense added to the table adds to
\* getTotalSpent, and to the entries of getMonthlySpending together, the
\* amount of the subject's own split when it is dated on or after 1 January
\* of the current year and has one, and nothing otherwise; an expense the
\* subject paid without a split of their own changes neither result.
C7_PersonalShareOnly ==
    expenses # <<>> =>
        \A me \in 1..Len(users), now \in Clock :
            LET e == expenses[Len(expenses)]
            IN  /\ TotalSpentOf(expenses, me, now) =
                      TotalSpentOf(EarlierExpenses, me, now) + OwnShare(e, me, now)
                /\ SumTotals(MonthlySpendingOf(expenses, me, now)) =
                      SumTotals(MonthlySpendingOf(EarlierExpenses, me, now))
                      + OwnShare(e, me, now)
                /\ (e.paidByUserId = me /\ ~HasSplit(e, me)) =>
                      /\ TotalSpentOf(expenses, me, now) =
                            TotalSpentOf(EarlierExpenses, me, now)
                      /\ MonthlySpendingOf(expenses, me, now) =
                            MonthlySpendingOf(EarlierExpenses, me, now)

\* user 1 has just read a total that is their own share of one expense of
\* the year, while another expense of the year that they paid, without a
\* split of their own, adds nothing
C7_Witness ==
    /\ ret.op = "getTotalSpent" /\ ret.ok /\ ret.identity = Tokens[1]
    /\ GetFullYear(ret.args) = 2
    /\ Len(expenses) = 2
    /\ expenses[1].paidByUserId = 1 /\ ~HasSplit(expenses[1], 1)
    /\ GetFullYear(expenses[1].date) = 2
    /\ expenses[2].paidByUserId = 2 /\ HasSplit(expenses[2], 1)
    /\ GetFullYear(expenses[2].date) = 2
    /\ ret.value = FindSplit(expenses[2], 1).amount

(* ======================== claims on getUserGroups ====================== *)
\* the sum of the amounts of the splits at the places ik = <<expense, split>>
RECURSIVE SumSplitsAt(_)
SumSplitsAt(S) ==
    IF S = {} THEN 0
    ELSE LET ik == CHOOSE y \in S : TRUE
         IN  expenses[ik[1]].splits[ik[2]].amount + SumSplitsAt(S \ {ik})

\* the sum of the amounts of the settlements at the places in S
RECURSIVE SumSettlementsAt(_)
SumSettlementsAt(S) ==
    IF S = {} THEN 0
    ELSE LET i == CHOOSE y \in S : TRUE
         IN  settlements[i].amount + SumSettlementsAt(S \ {i})

\* the balance of the claim for the group gid and the subject me: unpaid
\* splits of others on the group's expenses the subject paid, less the
\* subject's own unpaid split on those somebody else paid, plus the group's
\* settlements the subject paid, less those the subject received
ClaimedGroupBalance(gid, me) ==
    LET E == {i \in 1..Len(expenses) : expenses[i].groupId = gid}
        paidByMe == {i \in E : expenses[i].paidByUserId = me}
        othersUnpaid ==
            {ik \in paidByMe \X (1..2) :
                /\ ik[2] <= Len(expenses[ik[1]].splits)
                /\ expenses[ik[1]].splits[ik[2]].userId # me
                /\ ~expenses[ik[1]].splits[ik[2]].paid}
        myUnpaid ==
            {ik \in (E \ paidByMe) \X (1..2) :
                /\ ik[2] <= Len(expenses[ik[1]].splits)
                /\ expenses[ik[1]].splits[ik[2]].userId = me
                /\ ~expenses[ik[1]].splits[ik[2]].paid}
        S == {i \in 1..Len(settlements) : settlements[i].groupId = gid}
        paid == {i \in S : settlements[i].paidByUserId = me}
        received == {i \in S : settlements[i].receivedByUserId = me}
    IN  SumSplitsAt(othersUnpaid) - SumSplitsAt(myUnpaid)
        + SumSettlementsAt(paid) - SumSettlementsAt(received)

\* C6 (group balance): getUserGroups lists exactly the groups whose members
\* include the subject, each once, and the balance of each is the claimed
\* sum over the records of that group alone.
C6_GroupBalance ==
    \A me \in 1..Len(users) :
        LET out == UserGroups(me)
        IN  /\ {out[i].id : i \in 1..Len(out)} =
                  {g \in 1..Len(groups) : IsMember(groups[g], me)}
            /\ \A i, j \in 1..Len(out) : i # j => out[i].id # out[j].id
            /\ \A i \in 1..Len(out) :
                  out[i].balance = ClaimedGroupBalance(out[i].id, me)

\* user 2, a member of both groups, has just read a positive balance in one
\* group and a negative one in the other, with a settlement applied
C6_Witness ==
    /\ ret.op = "getUserGroups" /\ ret.ok /\ ret.identity = Tokens[2]
    /\ Len(ret.value) = 2
    /\ settlements # <<>>
    /\ \E i, j \in 1..2 : ret.value[i].balance > 0 /\ ret.value[j].balance < 0

(* ===================== claims on dangling references =================== *)
\* the users other than me named, as payer or in a split, by a 1-to-1
\* expense that me paid or has a split of
Counterparts(me) ==
    LET mine == {i \in 1..Len(expenses) :
                    /\ expenses[i].groupId = NoGroup
                    /\ (expenses[i].paidByUserId = me
                        \/ HasSplit(expenses[i], me))}
    IN  {u \in 1..Len(users) :
            /\ u # me
            /\ \E i \in mine :
                  expenses[i].paidByUserId = u \/ HasSplit(expenses[i], u)}

\* C9 (dangling references): for a caller whose own record exists,
\* getUserBalances completes and lists every counterparty of a non-zero net,
\* a missing one too, with the amount of that net, a missing one under the
\* name "Unknown"; getAllContacts completes and its users are exactly the
\* counterparts whose record exists.
C9_DanglingTolerated ==
    /\ (ret.op = "getUserBalances" /\ UserByToken(ret.identity) # Null) =>
          LET me == UserByToken(ret.identity)
              bal == Ledger(me).bal
              all == ret.value.oweDetails.youOwe
                        \o ret.value.oweDetails.youAreOwedBy
          IN  /\ ret.ok
              /\ \A k \in 1..Len(bal) :
                    bal[k].owed # bal[k].owing =>
                       \E i \in 1..Len(all) :
                          /\ all[i].userId = bal[k].uid
                          /\ all[i].amount = Abs(bal[k].owed - bal[k].owing)
              /\ \A i \in 1..Len(all) :
                    ~UserExists(all[i].userId) => all[i].name = "Unknown"
    /\ (ret.op = "getAllContacts" /\ UserByToken(ret.identity) # Null) =>
          LET me == UserByToken(ret.identity)
              out == ret.value.users
          IN  /\ ret.ok
              /\ {out[i].id : i \in 1..Len(out)} =
                    {u \in Counterparts(me) : UserExists(u)}

\* user 1 has just read contacts that leave out the removed user 3 and keep
\* user 2, while getUserBalances lists user 3 as "Unknown"
C9_Witness ==
    /\ ret.op = "getAllContacts" /\ ret.ok /\ ret.identity = Tokens[1]
    /\ ~UserExists(3)
    /\ Counterparts(1) = {2, 3}
    /\ {ret.value.users[i].id : i \in 1..Len(ret.value.users)} = {2}
    /\ \E i \in 1..Len(UserBalances(1).oweDetails.youAreOwedBy) :
          /\ UserBalances(1).oweDetails.youAreOwedBy[i].userId = 3
          /\ UserBalances(1).oweDetails.youAreOwedBy[i].name = "Unknown"

(* ------------------- useStoreUser (the React hook) --------------------- *)
\* the name Clerk gives for an identity
NameOf(token) == Names[CHOOSE i \in 1..Len(Tokens) : Tokens[i] = token]

\* isAuthenticated: isAuthenticated && userId !== null
HookIsAuthenticated == convexAuth /\ userId # Null

\* isLoading, for a Convex client that has finished checking auth
HookIsLoading == convexAuth /\ userId = Null

\* the effect's cleanup, () => setUserId(null); it exists only when the last
\* run of the effect got past its guard
AfterCleanup(wasAuthenticated) == IF wasAuthenticated THEN Null ELSE userId

\* the effect's body: nothing when not authenticated, else storeUser() is
\* called for whoever is signed in
AfterEffect(isAuthenticated, user) ==
    IF ~isAuthenticated THEN inflight
    ELSE Append(inflight, [identity |-> user])

\* a dependency of the effect changed: the cleanup of the last run, then the body
RunEffect(isAuthenticated, user) ==
    /\ isAuthenticated => Len(inflight) < MaxInflight
    /\ userId' = AfterCleanup(convexAuth)
    /\ inflight' = AfterEffect(isAuthenticated, user)

\* Clerk signs a user in: user?.id changes
signIn(token) ==
    /\ clerkUser = NoIdentity
    /\ clerkUser' = token
    /\ UNCHANGED convexAuth
    /\ RunEffect(convexAuth, token)
    /\ UNCHANGED <<dbvars, ret>>

\* Convex has validated the token of the signed-in user
authenticate ==
    /\ clerkUser # NoIdentity
    /\ ~convexAuth
    /\ convexAuth' = TRUE
    /\ UNCHANGED clerkUser
    /\ RunEffect(TRUE, clerkUser)
    /\ UNCHANGED <<dbvars, ret>>

signOut ==
    /\ clerkUser # NoIdentity
    /\ clerkUser' = NoIdentity
    /\ convexAuth' = FALSE
    /\ RunEffect(FALSE, NoIdentity)
    /\ UNCHANGED <<dbvars, ret>>

\* another user becomes the signed-in one without a sign-out in between
switchUser(token) ==
    /\ clerkUser \notin {NoIdentity, token}
    /\ clerkUser' = token
    /\ UNCHANGED convexAuth
    /\ RunEffect(convexAuth, token)
    /\ UNCHANGED <<dbvars, ret>>

\* the oldest call of store completes: the mutation runs and createUser goes
\* on past its await with setUserId(id)
storeCompletes ==
    /\ inflight # <<>>
    /\ LET call == Head(inflight)
           r == storeResult(call.identity, NameOf(call.identity))
       IN  /\ ret' = r.ret
           /\ users' = r.users
           /\ userId' = IF r.ret.ok THEN r.ret.value ELSE userId
    /\ inflight' = Tail(inflight)
    /\ UNCHANGED <<groups, expenses, settlements, clerkUser, convexAuth>>

InitHook ==
    /\ users = <<>>
    /\ groups = <<>>
    /\ expenses = <<>>
    /\ settlements = <<>>
    /\ ret = Env("init")
    /\ HookIdle

NextHook ==
    \/ \E t \in {Tokens[1], Tokens[2]} : signIn(t)
    \/ authenticate
    \/ signOut
    \/ \E t \in {Tokens[1], Tokens[2]} : switchUser(t)
    \/ storeCompletes

SpecHook == InitHook /\ [][NextHook]_vars

(* -------------------- group and 1-to-1 records together ---------------- *)
\* records of users 1 and 2 in group 1, in group 2 and in no group
ScopedExpenses ==
    {Expense(px[1], g, SomeDate,
             <<Split(px[1], 1, TRUE), Split(px[2], a, FALSE)>>) :
        px \in {<<1, 2>>, <<2, 1>>}, g \in {NoGroup, 1, 2}, a \in Amounts}

ScopedSettlements ==
    {Settlement(px[1], px[2], 1, g) :
        px \in {<<1, 2>>, <<2, 1>>}, g \in {NoGroup, 1, 2}}

NextScoping ==
    \/ \E e \in ScopedExpenses : insertExpense(e)
    \/ \E s \in ScopedSettlements : insertSettlement(s)
    \/ \E i \in 1..2 : getUserBalances(Tokens[i])
    \/ \E i \in 1..2 : getUserGroups(Tokens[i])

SpecScoping == InitBalances /\ [][NextScoping]_vars

(* ------------------------------ sign-ins ------------------------------- *)
InitStore ==
    /\ users = <<>>
    /\ groups = <<>>
    /\ expenses = <<>>
    /\ settlements = <<>>
    /\ ret = Env("init")
    /\ HookIdle

\* any identity, with one of two names or none, calls store
NextStore ==
    \E c \in {NoIdentity, Tokens[1], Tokens[2], Tokens[3]},
       name \in {Names[1], Names[2], NoName} : store(c, name)

SpecStore == InitStore /\ [][NextStore]_vars

(* ====================== claims on authentication ====================== *)
PublicOperations ==
    {"getUserBalances", "getTotalSpent", "getMonthlySpending", "getUserGroups",
     "getAllContacts", "searchUsers", "createGroup", "store"}

\* C8 (unauthenticated fail-fast): a call of one of the eight operations with
\* no identity ends in an error, has read no expense, settlement or group,
\* returns no value, and leaves every table as it was.
C8_UnauthenticatedFailFast ==
    [][(ret'.op \in PublicOperations /\ ret'.identity = NoIdentity) =>
          /\ ~ret'.ok
          /\ ret'.error \in {"Not authenticated",
                             "Called storeUser without authentication present"}
          /\ ret'.reads \cap {"expenses", "settlements", "groups"} = {}
          /\ ret'.value = Null
          /\ UNCHANGED dbvars]_vars

\* with users, a group, an expense and a settlement stored, a call of
\* getUserGroups with no identity has just failed
C8_Witness ==
    /\ ret.op = "getUserGroups" /\ ret.identity = NoIdentity /\ ~ret.ok
    /\ ret.error = "Not authenticated"
    /\ Len(users) >= 2 /\ groups # <<>> /\ expenses # <<>> /\ settlements # <<>>

(* ========================= claims on the hook ========================= *)
\* C10 (no stale authentication): whenever useStoreUser reports
\* isAuthenticated = true, the call of store made for the user who is signed
\* in now has completed (calls complete in the order they were made, so none
\* is still on its way) and userId is the id of that user.
C10_NoStaleAuthentication ==
    HookIsAuthenticated =>
        /\ inflight = <<>>
        /\ userId = UserByToken(clerkUser)

(* ============================ claims on store ========================== *)
\* C11 (store saves each user once), as claimed: after a call of store by an
\* authenticated identity the users table holds exactly one record with its
\* tokenIdentifier and the call returned the id of that record; the records
\* of the other identities are as they were; when the identity was stored
\* before, nothing but the name of its record can differ; and a call that
\* repeats the last call, by the same identity with the same name, leaves
\* the users table unchanged.
C11_StoreOnce ==
    [][(ret'.op = "store" /\ ret'.identity # NoIdentity) =>
          LET t == ret'.identity
              before == {i \in 1..Len(users) : users[i].tokenIdentifier = t}
              after == {i \in 1..Len(users') : users'[i].tokenIdentifier = t}
          IN  /\ ret'.ok
              /\ Cardinality(after) = 1
              /\ ret'.value \in after
              /\ Len(users') = Len(users) + (IF before = {} THEN 1 ELSE 0)
              /\ \A i \in 1..Len(users) :
                    IF i \in before
                    THEN users'[i] = [users[i] EXCEPT !.name = users'[i].name]
                    ELSE users'[i] = users[i]
              /\ (ret.op = "store" /\ ret.ok /\ ret.identity = t
                    /\ ret.args = ret'.args) => users' = users]_vars

(* ======================== claims on groupId scoping ==================== *)
\* the table rows without its row i
RemoveAt(rows, i) == SubSeq(rows, 1, i - 1) \o SubSeq(rows, i + 1, Len(rows))

\* the balances getUserGroups returns to me, other than that of the group g,
\* are the same on the tables es, ss and on the tables es2, ss2
SameGroupBalances(es, ss, es2, ss2, me, g) ==
    \A h \in 1..Len(groups) :
        (h # g /\ IsMember(groups[h], me)) =>
            GroupBalanceOf(es, ss, h, me) = GroupBalanceOf(es2, ss2, h, me)

\* C12 (groupId scoping): for every subject and every stored expense or
\* settlement, the tables with that record and the tables without it give
\* the same getUserBalances result when the record carries a groupId, and
\* the same getUserGroups balance for every group other than the record's
\* (for every group when the record carries no groupId).
C12_GroupIdScoping ==
    \A me \in 1..Len(users) :
        /\ \A i \in 1..Len(expenses) :
              LET es == RemoveAt(expenses, i)
                  g == expenses[i].groupId
              IN  /\ g # NoGroup =>
                        UserBalancesOf(expenses, settlements, me)
                           = UserBalancesOf(es, settlements, me)
                  /\ SameGroupBalances(expenses, settlements,
                                       es, settlements, me, g)
        /\ \A i \in 1..Len(settlements) :
              LET ss == RemoveAt(settlements, i)
                  g == settlements[i].groupId
              IN  /\ g # NoGroup =>
                        UserBalancesOf(expenses, settlements, me)
                           = UserBalancesOf(expenses, ss, me)
                  /\ SameGroupBalances(expenses, settlements,
                                       expenses, ss, me, g)

\* user 2 has just read balances that count the 1-to-1 expense only, while a
\* group expense paid by user 1 is stored too and gives that group, and no
\* other, its balance
C12_Witness ==
    /\ ret.op = "getUserBalances" /\ ret.ok /\ ret.identity = Tokens[2]
    /\ \E i, j \in 1..Len(expenses) :
          /\ expenses[i].groupId = NoGroup /\ expenses[i].paidByUserId = 1
          /\ expenses[j].groupId = 1 /\ expenses[j].paidByUserId = 1
          /\ ret.value.youOwe = FindSplit(expenses[i], 2).amount
          /\ GroupBalance(1, 2) = -FindSplit(expenses[j], 2).amount
          /\ GroupBalance(2, 2) = 0

(* ======================= claims on contact discovery =================== *)
\* the ids listed in oweDetails.youOwe or oweDetails.youAreOwedBy of the
\* getUserBalances result b
ListedIds(b) ==
    {b.oweDetails.youOwe[i].userId : i \in 1..Len(b.oweDetails.youOwe)}
    \cup
    {b.oweDetails.youAreOwedBy[i].userId :
        i \in 1..Len(b.oweDetails.youAreOwedBy)}

\* the contacts c hold every id of the balances b whose record exists, hold
\* no id twice and do not hold me
CoversCounterparties(c, b, me) ==
    /\ \A u \in ListedIds(b) :
          UserExists(u) => \E k \in 1..Len(c) : c[k].id = u
    /\ \A j, k \in 1..Len(c) : j # k => c[j].id # c[k].id
    /\ \A k \in 1..Len(c) : c[k].id # me

\* C13 (contact discovery covers every counterparty), as claimed: on one
\* snapshot of the tables, every user whose record exists and whom
\* getUserBalances lists for a subject is in the users list getAllContacts
\* returns to that subject, and that list holds no contact twice and never
\* the subject.
C13_ContactsCoverCounterparties ==
    /\ (ret.op = "getUserBalances" /\ ret.ok) =>
          LET me == UserByToken(ret.identity)
          IN  CoversCounterparties(AllContacts(me).users, ret.value, me)
    /\ (ret.op = "getAllContacts" /\ ret.ok) =>
          LET me == UserByToken(ret.identity)
          IN  CoversCounterparties(ret.value.users, UserBalances(me), me)

(* ======================== claims on headline totals ==================== *)
\* the sum of the amounts of a list of oweDetails
RECURSIVE SumListed(_)
SumListed(list) ==
    IF list = <<>> THEN 0 ELSE Head(list).amount + SumListed(Tail(list))

\* C14 (headline totals agree with the lists): in every getUserBalances
\* result totalBalance is youAreOwed - youOwe, and it is also the sum of the
\* amounts in oweDetails.youAreOwedBy minus the sum of the amounts in
\* oweDetails.youOwe.
C14_TotalsAgreeWithLists ==
    (ret.op = "getUserBalances" /\ ret.ok) =>
        /\ ret.value.totalBalance = ret.value.youAreOwed - ret.value.youOwe
        /\ ret.value.totalBalance =
              SumListed(ret.value.oweDetails.youAreOwedBy)
                 - SumListed(ret.value.oweDetails.youOwe)

\* user 1 has just read a result with an entry in each list, of different
\* amounts
C14_Witness ==
    /\ ret.op = "getUserBalances" /\ ret.ok /\ ret.identity = Tokens[1]
    /\ ret.value.oweDetails.youOwe # <<>>
    /\ ret.value.oweDetails.youAreOwedBy # <<>>
    /\ ret.value.totalBalance # 0
    /\ ret.value.totalBalance =
          SumListed(ret.value.oweDetails.youAreOwedBy)
             - SumListed(ret.value.oweDetails.youOwe)

====
